---- MODULE Spec2Model ----
(***************************************************************************)
(* Model of evolve_strings.py: the terminator rule of the sequence         *)
(* operators, the sliding-window homology score, tournament selection of   *)
(* suitors, and the generational driver.                                   *)
(*                                                                         *)
(* A sequence is a TLA+ sequence of one-letter strings.  Every random draw *)
(* of the program (choice, random, randint) is an existentially chosen     *)
(* input of the action that makes it.                                      *)
(***************************************************************************)
EXTENDS Integers, Sequences, FiniteSets, TLC

VARIABLES
    op,               \* which operation produced the current state
    original_string,  \* input of a sequence operation
    drawn,            \* symbols before the terminator rule (drawn / post-mutation)
    new_string,       \* output of a sequence operation
    rate,             \* mutation rate class of the last mutate_string call
    string_1,         \* score_fitness: first argument
    string_2,         \* score_fitness: second argument
    fitness,          \* score_fitness(string_1, string_2)
    fitness_swapped,  \* score_fitness(string_2, string_1)
    pc,               \* evolve_strings: control state
    population_size,  \* evolve_strings: parameter
    string_length,    \* evolve_strings: parameter
    generations,      \* evolve_strings: parameter
    tournament_size,  \* evolve_strings / generate_new_strings: parameter
    mutation_rate,    \* evolve_strings / generate_new_strings: parameter (rate class)
    population,       \* the current population, a sequence of pairs of sequences
    i,                \* evolve_strings: loop iterations completed
    count,            \* evolve_strings: completed-generation counter
    evolved_strings,  \* evolve_strings: returned list of <<fitness, first, second>>
    new_generation,   \* generate_new_strings: returned population
    focal,            \* suitor loop: individuals processed so far
    tournament,       \* suitor loop: the indices drawn for the last individual
    suitors           \* suitor loop: the suitors chosen so far

vars == <<op, original_string, drawn, new_string, rate, string_1, string_2, fitness,
         fitness_swapped, pc, population_size, string_length, generations,
         tournament_size, mutation_rate, population, i, count, evolved_strings,
         new_generation, focal, tournament, suitors>>

evolveVars == <<pc, population_size, string_length, generations, tournament_size,
               mutation_rate, population, i, count, evolved_strings, new_generation,
               focal, tournament, suitors>>

seqVars == <<original_string, drawn, new_string, rate>>
fitVars == <<string_1, string_2, fitness, fitness_swapped>>

-----------------------------------------------------------------------------
(* Bounds *)

MaxLen == 5        \* longest sequence given to the sequence operators
MaxFitLen == 5     \* longest sequence given to score_fitness
MaxPop == 3        \* largest population
MaxGen == 2        \* largest number of generations asked for

-----------------------------------------------------------------------------
(* Alphabet *)

bases == <<"A", "C", "T", "G">>

Range(s) == {s[x] : x \in 1..Len(s)}

\* The sequence operators only test a symbol for being "T" and mutate_base
\* treats all symbols alike, so "G" behaves exactly as "A" does: their inputs
\* and draws are explored over three of the four symbols.
SeqDraws == {"A", "C", "T"}

\* score_fitness only compares symbols for equality.
FitDraws == {"A", "C", "T"}

Strings(D, lo, hi) == UNION {[1..n -> D] : n \in lo..hi}

\* the value of fitness before score_fitness is called
NoFitness == [status |-> "none", score |-> 0, max_score |-> 0, scores |-> <<>>]

\* the three classes of mutation rate: 0, strictly between 0 and 1, and 1
Rates == {"zero", "mid", "one"}

-----------------------------------------------------------------------------
(* generate_string *)

\* one iteration of the loop of generate_string, after the draw
generate_step(new_base, tcount) ==
    LET c == IF new_base = "T" THEN tcount + 1 ELSE tcount
    IN  IF c = 4 THEN [base |-> "C", tcount |-> 0]
                 ELSE [base |-> new_base, tcount |-> c]

RECURSIVE generate_loop(_, _, _)
generate_loop(draws, tcount, new_bases) ==
    IF draws = <<>> THEN new_bases
    ELSE LET r == generate_step(Head(draws), tcount)
         IN  generate_loop(Tail(draws), r.tcount, Append(new_bases, r.base))

\* generate_string(length), the drawn symbols made explicit; length = Len(draws)
generate_string(draws) == generate_loop(draws, 0, <<>>)

-----------------------------------------------------------------------------
(* mutate_base, mutate_string *)

\* the symbols mutate_base may return
mutate_base(base) == {b \in Range(bases) : b # base}

\* the symbols a position may hold after the mutation test of mutate_string
MutationOutcomes(base, r) ==
    (IF r # "one" THEN {base} ELSE {}) \cup (IF r # "zero" THEN mutate_base(base) ELSE {})

\* faulty variant: the replacement is made at the fifth "T"
mutate_step_late(new_base, tcount) ==
    LET c == IF new_base = "T" THEN tcount + 1 ELSE tcount
    IN  IF c = 5 THEN [base |-> "C", tcount |-> 0]
                 ELSE [base |-> new_base, tcount |-> c]

\* one iteration of the loop of mutate_string, after the mutation test
mutate_step(new_base, tcount) ==
    LET c == IF new_base = "T" THEN tcount + 1 ELSE tcount
    IN  IF c = 4 THEN [base |-> "C", tcount |-> 0]
                 ELSE [base |-> new_base, tcount |-> c]

RECURSIVE mutate_loop(_, _, _)
mutate_loop(mutated, tcount, new_bases) ==
    IF mutated = <<>> THEN new_bases
    ELSE LET r == mutate_step(Head(mutated), tcount)
         IN  mutate_loop(Tail(mutated), r.tcount, Append(new_bases, r.base))

\* mutate_string, given the post-mutation symbol of every position
mutate_string(mutated) == mutate_loop(mutated, 0, <<>>)

\* the post-mutation sequences of original_string at rate class r, over draws D
PostMutation(s, r, D) ==
    {m \in [1..Len(s) -> D \cup Range(s)] :
        \A p \in 1..Len(s) : m[p] \in MutationOutcomes(s[p], r) \cap (D \cup {s[p]})}

-----------------------------------------------------------------------------
(* remove_terminators *)

remove_step(base, tcount) ==
    LET c == IF base = "T" THEN tcount + 1 ELSE tcount
    IN  IF c = 4 THEN [base |-> "A", tcount |-> 0]
                 ELSE [base |-> base, tcount |-> c]

RECURSIVE remove_loop(_, _, _)
remove_loop(sequence, tcount, new_bases) ==
    IF sequence = <<>> THEN new_bases
    ELSE LET r == remove_step(Head(sequence), tcount)
         IN  remove_loop(Tail(sequence), r.tcount, Append(new_bases, r.base))

remove_terminators(sequence) == remove_loop(sequence, 0, <<>>)

-----------------------------------------------------------------------------
(* Specification of the sequence operators *)

SeqIdle == /\ original_string = <<>>
           /\ drawn = <<>>
           /\ new_string = <<>>
           /\ rate = "zero"

EvolveIdle ==
    /\ pc = "idle"
    /\ population_size = 0
    /\ string_length = 0
    /\ generations = 0
    /\ tournament_size = 0
    /\ mutation_rate = "zero"
    /\ population = <<>>
    /\ i = 0
    /\ count = 0
    /\ evolved_strings = <<>>
    /\ new_generation = <<>>
    /\ focal = 0
    /\ tournament = <<>>
    /\ suitors = <<>>

FitIdle == /\ string_1 = <<>>
           /\ string_2 = <<>>
           /\ fitness = NoFitness
           /\ fitness_swapped = NoFitness

SeqInit ==
    /\ op = "input"
    /\ original_string \in Strings(SeqDraws, 0, MaxLen)
    /\ drawn = <<>>
    /\ new_string = <<>>
    /\ rate = "zero"
    /\ FitIdle
    /\ EvolveIdle

\* generate_string(length) for some length and some draws
GenerateString ==
    /\ op = "input"
    /\ \E draws \in Strings(SeqDraws, 0, MaxLen) :
          /\ drawn' = draws
          /\ new_string' = generate_string(draws)
    /\ op' = "generate"
    /\ original_string' = <<>>
    /\ UNCHANGED rate
    /\ UNCHANGED fitVars
    /\ UNCHANGED evolveVars

\* mutate_string(original_string, r)
MutateString ==
    /\ op = "input"
    /\ \E r \in Rates :
          /\ rate' = r
          /\ \E m \in PostMutation(original_string, r, SeqDraws) :
                /\ drawn' = m
                /\ new_string' = mutate_string(m)
    /\ op' = "mutate"
    /\ UNCHANGED original_string
    /\ UNCHANGED fitVars
    /\ UNCHANGED evolveVars

\* remove_terminators(original_string)
RemoveTerminators ==
    /\ op = "input"
    /\ drawn' = original_string
    /\ new_string' = remove_terminators(original_string)
    /\ op' = "remove"
    /\ UNCHANGED <<original_string, rate>>
    /\ UNCHANGED fitVars
    /\ UNCHANGED evolveVars

\* remove_terminators applied to its own result
RemoveAgain ==
    /\ op = "remove"
    /\ original_string' = new_string
    /\ drawn' = new_string
    /\ new_string' = remove_terminators(new_string)
    /\ op' = "remove_again"
    /\ UNCHANGED rate
    /\ UNCHANGED fitVars
    /\ UNCHANGED evolveVars

\* the result of generate_string or mutate_string is given to a later call
Reuse ==
    /\ op \in {"generate", "mutate"}
    /\ original_string' = new_string
    /\ drawn' = <<>>
    /\ new_string' = <<>>
    /\ rate' = "zero"
    /\ op' = "input"
    /\ UNCHANGED fitVars
    /\ UNCHANGED evolveVars

SeqNext == GenerateString \/ MutateString \/ RemoveTerminators \/ RemoveAgain \/ Reuse

SeqSpec == SeqInit /\ [][SeqNext]_vars

-----------------------------------------------------------------------------
(* Properties of the sequence operators *)

\* s holds "T" at the positions p-3 .. p-1
ThreeTBefore(s, p) == p >= 4 /\ \A q \in (p - 3)..(p - 1) : s[q] = "T"

\* s has no run of four or more consecutive "T"
NoTerminator(s) == \A p \in 1..Len(s) : ~(s[p] = "T" /\ ThreeTBefore(s, p))

\* C1: no sequence returned by generate_string or mutate_string holds a run
\* of four or more consecutive "T", whatever the draws, the rate and the input.
NoTerminatorInResult ==
    op \in {"generate", "mutate"} => NoTerminator(new_string)

\* mutate_string on an input that holds a run of four "T", left unmutated
NoTerminatorWitness ==
    /\ op = "mutate"
    /\ ~NoTerminator(original_string)
    /\ drawn = original_string
    /\ NoTerminator(new_string)

\* C4 as stated: mutate_string(s, 0.0) returns s for every s without a run of
\* four or more consecutive "T".
ZeroRateReturnsInput ==
    (op = "mutate" /\ rate = "zero" /\ NoTerminator(original_string))
        => new_string = original_string

\* C6 as stated: remove_terminators(remove_terminators(s)) =
\* remove_terminators(s) for every sequence s.
RemoveTerminatorsIdempotent ==
    op = "remove_again" => new_string = original_string

\* C9 as stated: generate_string and mutate_string replace the symbol of a
\* position (by "C") if and only if it is a "T" that would be the fourth of
\* four consecutive "T" of the output.
ReplacedIffFourthOfRun ==
    op \in {"generate", "mutate"}
        => \A p \in 1..Len(new_string) :
              /\ (new_string[p] # drawn[p])
                     <=> (drawn[p] = "T" /\ ThreeTBefore(new_string, p))
              /\ (new_string[p] # drawn[p]) => new_string[p] = "C"

-----------------------------------------------------------------------------
(* score_fitness *)

\* get_substrings(full_string, k): the substrings of length k, left to right
get_substrings(full_string, k) ==
    [x \in 1..(Len(full_string) - k + 1) |-> SubSeq(full_string, x, x + k - 1)]

\* faulty variant: half the length, without the -1
get_sliding_window_wide(substring) ==
    IF Len(substring) > 1 THEN Len(substring) \div 2 ELSE 0

get_sliding_window(substring) ==
    IF Len(substring) > 1 THEN Len(substring) \div 2 - 1 ELSE 0

\* substrings_2[left_index : right_index] as the set of its (0-based) indices;
\* a Python slice stops at the end of the list
SliceIndices(list, left_index, right_index) ==
    {j \in left_index..(right_index - 1) : j < Len(list)}

\* faulty variant: the window lies one place to the right
window_match_shifted(substrings_1, substrings_2, sliding_window, x) ==
    LET list_length == Len(substrings_1)
        left_index  == IF x >= sliding_window THEN x - sliding_window + 1 ELSE 1
        right_index == IF list_length - x > sliding_window
                       THEN x + sliding_window + 2 ELSE list_length
    IN  \E j \in SliceIndices(substrings_2, left_index, right_index) :
            substrings_2[j + 1] = substrings_1[x + 1]

\* the test of score_substrings at (0-based) index x
window_match(substrings_1, substrings_2, sliding_window, x) ==
    LET list_length == Len(substrings_1)
        left_index  == IF x >= sliding_window THEN x - sliding_window ELSE 0
        right_index == IF list_length - x > sliding_window
                       THEN x + sliding_window + 1 ELSE list_length
    IN  \E j \in SliceIndices(substrings_2, left_index, right_index) :
            substrings_2[j + 1] = substrings_1[x + 1]

RECURSIVE score_loop(_, _, _, _, _)
score_loop(substrings_1, substrings_2, sliding_window, x, homology_score) ==
    IF x >= Len(substrings_1) THEN homology_score
    ELSE score_loop(substrings_1, substrings_2, sliding_window, x + 1,
                    IF window_match(substrings_1, substrings_2, sliding_window, x)
                    THEN homology_score + 1 ELSE homology_score)

score_substrings(substrings_1, substrings_2, sliding_window) ==
    score_loop(substrings_1, substrings_2, sliding_window, 0, 0)

\* "." * k
Placeholder(k) == [x \in 1..k |-> "."]

\* the homology score of window size k
homology(s1, s2, k) ==
    score_substrings(get_substrings(s1, k), get_substrings(s2, k),
                     get_sliding_window(Placeholder(k)))

\* the maximum score of window size k for strings of the given length
identity_score(length, k) ==
    LET identity == [x \in 1..(length - k + 1) |-> Placeholder(k)]
    IN  score_substrings(identity, identity, get_sliding_window(Placeholder(k)))

RECURSIVE fitness_loop(_, _, _, _, _, _)
fitness_loop(s1, s2, k, score, max_score, scores) ==
    IF k >= Len(s1)
    THEN [status |-> IF max_score = 0 THEN "ZeroDivisionError" ELSE "ok",
          score |-> score, max_score |-> max_score, scores |-> scores]
    ELSE LET homology_score == homology(s1, s2, k)
         IN  fitness_loop(s1, s2, k + 1,
                          score + homology_score,
                          max_score + identity_score(Len(s1), k),
                          Append(scores, homology_score))

\* score_fitness returns score / max_score; the model keeps both numbers, and
\* the homology score of every window size (scores[k]).  The status tells a
\* returned value ("ok") from the two ways the call can raise.
score_fitness(s1, s2) ==
    IF Len(s1) # Len(s2)
    THEN [status |-> "ValueError", score |-> 0, max_score |-> 0, scores |-> <<>>]
    ELSE fitness_loop(s1, s2, 1, 0, 0, <<>>)

\* f < g for two values returned by score_fitness
FitnessLess(f, g) == f.score * g.max_score < g.score * f.max_score

\* f = g for two values returned by score_fitness
FitnessEqual(f, g) == f.score * g.max_score = g.score * f.max_score

-----------------------------------------------------------------------------
(* Specification of score_fitness *)

FitInit ==
    /\ op = "input"
    /\ \E n \in 0..MaxFitLen :
          /\ string_1 \in [1..n -> FitDraws]
          /\ string_2 \in [1..n -> FitDraws]
    /\ fitness = NoFitness
    /\ fitness_swapped = NoFitness
    /\ SeqIdle
    /\ EvolveIdle

\* score_fitness(string_1, string_2)
ScoreFitness ==
    /\ op = "input"
    /\ fitness' = score_fitness(string_1, string_2)
    /\ op' = "score"
    /\ UNCHANGED <<string_1, string_2, fitness_swapped>>
    /\ UNCHANGED seqVars
    /\ UNCHANGED evolveVars

\* score_fitness(string_2, string_1), after score_fitness(string_1, string_2)
ScoreSwapped ==
    /\ op = "score"
    /\ fitness_swapped' = score_fitness(string_2, string_1)
    /\ op' = "swapped"
    /\ UNCHANGED <<string_1, string_2, fitness>>
    /\ UNCHANGED seqVars
    /\ UNCHANGED evolveVars

FitNext == ScoreFitness \/ ScoreSwapped

FitSpec == FitInit /\ [][FitNext]_vars

-----------------------------------------------------------------------------
(* Properties of score_fitness *)

\* C3: score_fitness(s, s) is 1.0 for every sequence s of length >= 2: the
\* accumulated score equals the accumulated maximum, which is positive.
SelfFitnessIsOne ==
    (op = "score" /\ string_1 = string_2 /\ Len(string_1) >= 2)
        => /\ fitness.status = "ok"
           /\ fitness.max_score > 0
           /\ fitness.score = fitness.max_score

\* a sequence of length 5 (window sizes 1..4, sliding windows 0 and 1), not
\* all symbols alike, scored against itself
SelfFitnessWitness ==
    /\ op = "score"
    /\ string_1 = string_2
    /\ Len(string_1) = 5
    /\ Cardinality(Range(string_1)) = 3
    /\ fitness.score = fitness.max_score

\* C2 as stated: score_fitness(a, b) = score_fitness(b, a) for all a, b of
\* equal length >= 2.
FitnessSymmetric ==
    (op = "swapped" /\ Len(string_1) >= 2)
        => /\ fitness.status = "ok"
           /\ fitness_swapped.status = "ok"
           /\ FitnessEqual(fitness, fitness_swapped)

\* C2 amended: the homology scores of a against b and of b against a agree
\* for every window size whose sliding window is 0 (window sizes 1, 2, 3), so
\* score_fitness is symmetric for sequences of length 2, 3 and 4.
FitnessSymmetricNarrowWindows ==
    (op = "swapped" /\ Len(string_1) >= 2)
        => /\ fitness.status = "ok"
           /\ fitness_swapped.status = "ok"
           /\ \A k \in 1..Len(fitness.scores) :
                 get_sliding_window(Placeholder(k)) = 0
                     => fitness.scores[k] = fitness_swapped.scores[k]
           /\ (Len(string_1) <= 4 => FitnessEqual(fitness, fitness_swapped))

\* two different sequences of length 4 with some but not all positions
\* matching, scored both ways round
FitnessSymmetricWitness ==
    /\ op = "swapped"
    /\ Len(string_1) = 4
    /\ string_1 # string_2
    /\ fitness.score > 0
    /\ fitness.score < fitness.max_score
    /\ FitnessEqual(fitness, fitness_swapped)

-----------------------------------------------------------------------------
(* generate_population *)

\* The driver is explored on sequences of length 2, the shortest that
\* score_fitness accepts, with draws over "A" and "T"; longer sequences and
\* the other symbols are the subject of SeqSpec and FitSpec.
StringLengths == {2}
EvolveDraws == {"A", "T"}

\* Initial populations are explored for the draws in which the first sequence
\* of a pair is all "A"; crossing and mutation move every sequence to either
\* place in later generations.
FirstDraws == {"A"}

\* the pairs generate_population may append
GeneratedPairs(length) ==
    {<<generate_string(d1), generate_string(d2)>> :
        d1 \in [1..length -> FirstDraws], d2 \in [1..length -> EvolveDraws]}

\* the populations generate_population(string_length, size) may return
generate_population(length, size) ==
    [1..(IF size > 0 THEN size ELSE 0) -> GeneratedPairs(length)]

\* the rate classes the driver is explored with (every symbol kept, every
\* symbol changed)
EvolveRates == {"zero", "one"}

-----------------------------------------------------------------------------
(* generate_new_strings *)

\* the fitness landscape: score_fitness of the pairs x .. len(pop), in order
RECURSIVE landscape_loop(_, _)
landscape_loop(pop, x) ==
    IF x > Len(pop) THEN <<>>
    ELSE <<score_fitness(pop[x][1], pop[x][2])>> \o landscape_loop(pop, x + 1)

Landscape(pop) == landscape_loop(pop, 1)

\* faulty variant: an earlier qualifying draw is kept
suitor_step_first(pop, landscape, x, suitor, best_suitor) ==
    IF FitnessLess(landscape[suitor], landscape[x]) /\ best_suitor = pop[x]
    THEN pop[suitor] ELSE best_suitor

\* one draw of the tournament of individual x: suitor is the index drawn
suitor_step(pop, landscape, x, suitor, best_suitor) ==
    IF FitnessLess(landscape[suitor], landscape[x]) THEN pop[suitor] ELSE best_suitor

RECURSIVE suitor_loop(_, _, _, _, _)
suitor_loop(pop, landscape, x, drawn_indices, best_suitor) ==
    IF drawn_indices = <<>> THEN best_suitor
    ELSE suitor_loop(pop, landscape, x, Tail(drawn_indices),
                     suitor_step(pop, landscape, x, Head(drawn_indices), best_suitor))

\* the tournaments of tournament_size draws over a population of n
Tournaments(n, size) == [1..size -> 1..n]

\* the suitor of individual x for the given drawn indices
best_suitor_of(pop, landscape, x, drawn_indices) ==
    suitor_loop(pop, landscape, x, drawn_indices, pop[x])

\* faulty variant: only the first child is returned
cross_strings_single(strings_1, strings_2) ==
    << <<strings_1[1], strings_2[2]>> >>

cross_strings(strings_1, strings_2) ==
    << <<strings_1[1], strings_2[2]>>, <<strings_1[2], strings_2[1]>> >>

\* the results of mutate_string(c, r) over the mutation draws
MutatedStrings(c, r) == {mutate_string(m) : m \in PostMutation(c, r, EvolveDraws)}

\* the results of mutating both sequences of every child
RECURSIVE MutatedChildren(_, _)
MutatedChildren(children, r) ==
    IF children = <<>> THEN {<<>>}
    ELSE {<< <<a, b>> >> \o rest :
             a \in MutatedStrings(Head(children)[1], r),
             b \in MutatedStrings(Head(children)[2], r),
             rest \in MutatedChildren(Tail(children), r)}

\* the suitors individual x can end its tournament with
PossibleSuitors(pop, landscape, size, x) ==
    {best_suitor_of(pop, landscape, x, d) : d \in Tournaments(Len(pop), size)}

\* what one selected index x can append to new_generation
Offspring(pop, landscape, size, r, x) ==
    UNION {MutatedChildren(cross_strings(pop[x], s), r) :
              s \in PossibleSuitors(pop, landscape, size, x)}

\* Offspring of the individuals x .. len(pop), in order
RECURSIVE offspring_loop(_, _, _, _, _)
offspring_loop(pop, landscape, size, r, x) ==
    IF x > Len(pop) THEN <<>>
    ELSE <<Offspring(pop, landscape, size, r, x)>>
             \o offspring_loop(pop, landscape, size, r, x + 1)

\* the new generations of one selection of indices
RECURSIVE NewGenerations(_, _)
NewGenerations(offspring, selection) ==
    IF selection = <<>> THEN {<<>>}
    ELSE {mutated_children \o rest :
             mutated_children \in offspring[Head(selection)],
             rest \in NewGenerations(offspring, Tail(selection))}

\* faulty variant: one index too many is selected
SelectionsExtra(n) == [1..(n \div 2 + 1) -> 1..n]

\* the selections of len(population)//2 indices
Selections(n) == [1..(n \div 2) -> 1..n]

\* The populations generate_new_strings(population, tournament_size,
\* mutation_rate) may return.  The code draws a tournament for every
\* individual and reads the suitors of the selected ones; the result depends
\* on the selection, on the suitor of each selected individual and on the
\* mutation draws.
generate_new_strings(pop, size, r) ==
    UNION {NewGenerations(offspring, selection) :
              selection \in Selections(Len(pop)),
              offspring \in {offspring_loop(pop, landscape, size, r, 1) :
                                landscape \in {Landscape(pop)}}}

-----------------------------------------------------------------------------
(* Specification of generate_new_strings, called on its own *)

\* the populations generate_new_strings is given: none, one, ... MaxPop pairs
GivenPopulations == UNION {generate_population(l, n) : l \in StringLengths, n \in 0..MaxPop}

idleDriver == <<pc, population_size, string_length, generations, i, count, evolved_strings>>

OffspringInit ==
    /\ op = "input"
    /\ population \in GivenPopulations
    /\ tournament_size \in 0..MaxPop
    /\ mutation_rate \in EvolveRates
    /\ new_generation = <<>>
    /\ focal = 0
    /\ tournament = <<>>
    /\ suitors = <<>>
    /\ pc = "idle"
    /\ population_size = 0
    /\ string_length = 0
    /\ generations = 0
    /\ i = 0
    /\ count = 0
    /\ evolved_strings = <<>>
    /\ SeqIdle
    /\ FitIdle

\* generate_new_strings(population, tournament_size, mutation_rate)
GenerateNewStrings ==
    /\ op = "input"
    /\ new_generation' \in generate_new_strings(population, tournament_size, mutation_rate)
    /\ op' = "offspring"
    /\ UNCHANGED <<population, tournament_size, mutation_rate, focal, tournament, suitors>>
    /\ UNCHANGED idleDriver
    /\ UNCHANGED seqVars
    /\ UNCHANGED fitVars

OffspringNext == GenerateNewStrings

OffspringSpec == OffspringInit /\ [][OffspringNext]_vars

\* C5: generate_new_strings returns exactly 2 * (N // 2) pairs for a
\* population of N pairs: N when N is even, N - 1 when N is odd; never more
\* than N.
OffspringSize ==
    op = "offspring"
        => /\ Len(new_generation) = 2 * (Len(population) \div 2)
           /\ Len(population) % 2 = 0 => Len(new_generation) = Len(population)
           /\ Len(population) % 2 = 1 => Len(new_generation) = Len(population) - 1
           /\ Len(new_generation) <= Len(population)

\* an odd population of three pairs gives two
OffspringSizeWitness ==
    /\ op = "offspring"
    /\ Len(population) = 3
    /\ Len(new_generation) = 2

-----------------------------------------------------------------------------
(* Specification of the suitor loop of generate_new_strings *)

SuitorInit ==
    /\ op = "suitors"
    /\ population \in GivenPopulations
    /\ tournament_size \in 0..MaxPop
    /\ mutation_rate = "zero"
    /\ new_generation = <<>>
    /\ focal = 0
    /\ tournament = <<>>
    /\ suitors = <<>>
    /\ pc = "idle"
    /\ population_size = 0
    /\ string_length = 0
    /\ generations = 0
    /\ i = 0
    /\ count = 0
    /\ evolved_strings = <<>>
    /\ SeqIdle
    /\ FitIdle

\* one iteration of the outer loop: the tournament of the next individual
SelectSuitor ==
    /\ op = "suitors"
    /\ focal < Len(population)
    /\ \E landscape \in {Landscape(population)} :
       \E drawn_indices \in Tournaments(Len(population), tournament_size) :
          /\ tournament' = drawn_indices
          /\ suitors' = Append(suitors,
                               best_suitor_of(population, landscape, focal + 1, drawn_indices))
    /\ focal' = focal + 1
    /\ UNCHANGED <<op, population, tournament_size, mutation_rate, new_generation>>
    /\ UNCHANGED idleDriver
    /\ UNCHANGED seqVars
    /\ UNCHANGED fitVars

SuitorNext == SelectSuitor

SuitorSpec == SuitorInit /\ [][SuitorNext]_vars

\* the positions of the tournament whose draw has a fitness strictly below
\* that of individual x
Qualifying(x) ==
    {m \in 1..Len(tournament) :
        FitnessLess(Landscape(population)[tournament[m]], Landscape(population)[x])}

LastOf(S) == CHOOSE m \in S : \A n \in S : n <= m

\* C8: the suitor of an individual is the pair of the last draw of its
\* tournament with a strictly lower fitness, and the individual itself when
\* no draw qualifies; its fitness is never above the individual's; one
\* suitor is appended per individual.
SuitorIsLastQualifyingDraw ==
    (op = "suitors" /\ focal >= 1)
        => /\ Len(tournament) = (IF tournament_size > 0 THEN tournament_size ELSE 0)
           /\ suitors[focal] = IF Qualifying(focal) = {}
                               THEN population[focal]
                               ELSE population[tournament[LastOf(Qualifying(focal))]]
           /\ ~FitnessLess(Landscape(population)[focal],
                           score_fitness(suitors[focal][1], suitors[focal][2]))
           /\ Len(suitors) = focal
           /\ focal <= Len(population)

\* two draws qualify and the last one, which is chosen, is not the one of
\* lowest fitness
SuitorWitness ==
    /\ op = "suitors"
    /\ focal >= 1
    /\ Cardinality(Qualifying(focal)) >= 2
    /\ \E m \in Qualifying(focal) :
          FitnessLess(Landscape(population)[tournament[m]],
                      score_fitness(suitors[focal][1], suitors[focal][2]))

-----------------------------------------------------------------------------
(* evolve_strings *)

\* <<fitness, first, second>> of the pairs x .. len(pop), in order
RECURSIVE scored_loop(_, _)
scored_loop(pop, x) ==
    IF x > Len(pop) THEN <<>>
    ELSE << <<score_fitness(pop[x][1], pop[x][2]), pop[x][1], pop[x][2]>> >>
             \o scored_loop(pop, x + 1)

Scored(pop) == scored_loop(pop, 1)

\* the place of triples[x] after list.sort(key = fitness), a stable ascending
\* sort: behind every triple of lower fitness and every earlier triple of
\* equal fitness
SortedPlace(triples, x) ==
    1 + Cardinality({y \in 1..Len(triples) :
                        \/ FitnessLess(triples[y][1], triples[x][1])
                        \/ (y < x /\ ~FitnessLess(triples[x][1], triples[y][1]))})

SortByFitness(triples) ==
    [place \in 1..Len(triples) |->
        triples[CHOOSE x \in 1..Len(triples) : SortedPlace(triples, x) = place]]

\* faulty variant: a tournament as large as the population is let through
loop_breaks_late(pop, size) == Len(pop) = 0 \/ size > Len(pop)

\* the two tests of the loop that end it early
loop_breaks(pop, size) == Len(pop) = 0 \/ size >= Len(pop)

EvolveInit ==
    /\ op = "evolve"
    /\ pc = "Initializing"
    /\ population_size \in 0..MaxPop
    /\ string_length \in StringLengths
    /\ generations \in 0..MaxGen
    /\ tournament_size \in (-1)..MaxPop
    /\ mutation_rate \in EvolveRates
    /\ population = <<>>
    /\ i = 0
    /\ count = 0
    /\ evolved_strings = <<>>
    /\ new_generation = <<>>
    /\ focal = 0
    /\ tournament = <<>>
    /\ suitors = <<>>
    /\ SeqIdle
    /\ FitIdle

otherVars == <<op, original_string, drawn, new_string, rate, string_1, string_2, fitness,
              fitness_swapped, new_generation, focal, tournament, suitors>>
parameters == <<population_size, string_length, generations, tournament_size, mutation_rate>>

\* the tournament check fails: ValueError
RejectTournament ==
    /\ pc = "Initializing"
    /\ tournament_size >= population_size
    /\ pc' = "Error"
    /\ UNCHANGED <<population, i, count, evolved_strings, parameters, otherVars>>

\* the tournament check passes and the population is generated
Initialize ==
    /\ pc = "Initializing"
    /\ ~(tournament_size >= population_size)
    /\ population' \in generate_population(string_length, population_size)
    /\ count' = 0
    /\ i' = 0
    /\ pc' = "Evolving"
    /\ UNCHANGED <<evolved_strings, parameters, otherVars>>

\* one iteration of the loop that executes a generation
Generation ==
    /\ pc = "Evolving"
    /\ i < generations
    /\ ~loop_breaks(population, tournament_size)
    /\ population' \in generate_new_strings(population, tournament_size, mutation_rate)
    /\ count' = count + 1
    /\ i' = i + 1
    /\ UNCHANGED <<pc, evolved_strings, parameters, otherVars>>

\* one iteration of the loop that breaks
StopEarly ==
    /\ pc = "Evolving"
    /\ i < generations
    /\ loop_breaks(population, tournament_size)
    /\ pc' = "Finalizing"
    /\ UNCHANGED <<population, i, count, evolved_strings, parameters, otherVars>>

\* range(generations) is exhausted
LoopExhausted ==
    /\ pc = "Evolving"
    /\ ~(i < generations)
    /\ pc' = "Finalizing"
    /\ UNCHANGED <<population, i, count, evolved_strings, parameters, otherVars>>

\* the final fitness landscape, the triples, the sort and the return
Finalize ==
    /\ pc = "Finalizing"
    /\ \E triples \in {Scored(population)} : evolved_strings' = SortByFitness(triples)
    /\ pc' = "Done"
    /\ UNCHANGED <<population, i, count, parameters, otherVars>>

Next == RejectTournament \/ Initialize \/ Generation \/ StopEarly \/ LoopExhausted \/ Finalize

Spec == EvolveInit /\ [][Next]_vars

\* evolve_strings is a sequential function: it keeps running until it returns
\* or raises.
FairSpec == Spec /\ WF_vars(Next)

-----------------------------------------------------------------------------
(* Properties of evolve_strings *)

\* evolved_strings holds the triple of every pair of pop and nothing else,
\* in ascending order of fitness
ReturnsTriplesOf(pop) ==
    \E triples \in {Scored(pop)} :
        /\ Len(evolved_strings) = Len(pop)
        /\ \A x \in 1..Len(pop) : \E y \in 1..Len(evolved_strings) :
              evolved_strings[y] = triples[x]
        /\ \A y \in 1..Len(evolved_strings) : \E x \in 1..Len(pop) :
              evolved_strings[y] = triples[x]
        /\ \A y \in 1..(Len(evolved_strings) - 1) :
              ~FitnessLess(evolved_strings[y + 1][1], evolved_strings[y][1])

\* what is left to do: the iterations the loop has not made, and the phases
\* after it
Remaining ==
    CASE pc = "Initializing" -> generations + 3
      [] pc = "Evolving"     -> (generations - i) + 2
      [] pc = "Finalizing"   -> 1
      [] OTHER               -> 0

DriverInvariant ==
    /\ pc \in {"Initializing", "Evolving", "Finalizing", "Done", "Error"}
    /\ pc \in {"Done", "Error"} \/ ENABLED Next
    /\ i <= generations
    /\ count <= generations
    /\ count = i
    /\ (pc \in {"Finalizing", "Done"} /\ count < generations)
          => (Len(population) = 0 \/ tournament_size >= Len(population))
    /\ pc = "Done" => ReturnsTriplesOf(population)

DriverStep ==
    /\ Remaining' < Remaining
    /\ (pc = "Initializing") => pc' \in {"Evolving", "Error"}
    /\ (pc = "Evolving") => pc' \in {"Evolving", "Finalizing"}
    /\ (pc = "Finalizing") => pc' = "Done"
    /\ (count' # count)
          => /\ count' = count + 1
             /\ pc = "Evolving" /\ pc' = "Evolving"
             /\ Len(population) > 0
             /\ tournament_size < Len(population)
    /\ (pc = "Evolving" /\ population' # population) => count' = count + 1
    /\ (pc = "Evolving" /\ (Len(population) = 0 \/ tournament_size >= Len(population)))
          => (pc' = "Finalizing" /\ count' = count /\ population' = population)
    /\ (pc \in {"Finalizing", "Done"}) => (count' = count /\ population' = population)

\* C7: a run that passes the tournament check reaches Done: every state
\* before Done has a next step and every step uses up the iterations that are
\* left, so the loop makes at most `generations` of them.  A generation
\* executes only on a non-empty population larger than the tournament; when
\* that fails the loop stops without an error and nothing executes
\* afterwards; count is the number of executed generations and is below
\* `generations` only after such a stop; the result holds one triple per pair
\* of the remaining population.
DriverTerminates ==
    /\ []DriverInvariant
    /\ [][DriverStep]_vars

\* the same termination as a liveness property of the fair specification
DriverReachesDone == (pc = "Evolving") ~> (pc = "Done")

\* a run of a population of one with tournament size 0: the only generation
\* leaves an empty population, the second iteration stops the loop
DriverWitness ==
    /\ pc = "Done"
    /\ generations = 2
    /\ count = 1
    /\ population = <<>>
    /\ evolved_strings = <<>>

PopulationSizeInvariant ==
    (tournament_size >= 1 /\ pc \in {"Evolving", "Finalizing", "Done"})
        => /\ Len(population) > 0
           /\ count = 0 => Len(population) = population_size
           /\ count >= 1 => /\ Len(population) = 2 * (population_size \div 2)
                            /\ Len(population) >= 2
           /\ (pc \in {"Finalizing", "Done"} /\ count < generations)
                 => tournament_size >= Len(population)

PopulationSizeStep ==
    (tournament_size >= 1 /\ pc # "Initializing" /\ Len(population') # Len(population))
        => /\ count = 0
           /\ count' = 1
           /\ population_size % 2 = 1

\* C10: with 1 <= tournament_size < population_size the population, once
\* generated, is never empty; its size changes at most once, in the first
\* executed generation and only from an odd population_size; from then on it
\* is the even number 2 * (population_size // 2) >= 2; an early stop is due to
\* tournament_size >= len(population).
PopulationSizeSettles ==
    /\ []PopulationSizeInvariant
    /\ [][PopulationSizeStep]_vars

\* three pairs and tournament size 2: the first generation leaves two pairs
\* and the second iteration stops the loop
PopulationSizeWitness ==
    /\ pc = "Done"
    /\ population_size = 3
    /\ tournament_size = 2
    /\ generations = 2
    /\ count = 1
    /\ Len(population) = 2

====
